---- MODULE Spec2Model ----
(***************************************************************************)
(* The asyncio-in-Qt "guest run" trampoline of AsyncHelper, in its two     *)
(* variants: QGuiApplication_asyncio.py (with the done flag and the        *)
(* worker's start/done signals) and minimal_asyncio.py (no done flag).     *)
(*                                                                         *)
(* Everything runs on the one Qt thread, so a slot (a host turn) runs to   *)
(* its end before the next host event is dispatched: each action below is  *)
(* one host turn, including the whole guest burst that loop.run_forever()  *)
(* executes inside it.  The asyncio loop is modelled by the parts of       *)
(* BaseEventLoop the code drives: the _ready deque, the _scheduled timers, *)
(* the _stopping flag, and run_forever/_run_once/call_soon/stop.           *)
(***************************************************************************)
EXTENDS Integers, Sequences, FiniteSets, TLC

\* ------------------------------------------------------------------ bounds
\* Tasks ever created on the loop (each successful start() creates one).
MaxTasks == 2
\* Re-entry events are fresh objects; their identity is kept modulo EvMod.
EvMod == 2
\* Iterations of run_forever's loop after which a burst counts as not returning.
MaxIter == 3

None == "None"

\* The status main() passes to os._exit.
ExitStatus == 5

\* ------------------------------------------------------------ entry points
\* An entry point is a coroutine function; its body is a sequence of steps:
\*   "sleep"   await asyncio.sleep(1): arms a timer, suspends
\*   "yield"   await asyncio.sleep(0): reschedules itself as ready, suspends
\*   "spin"    while True: await asyncio.sleep(0)
\*   "block"   await a future nobody resolves
\*   "setflag" an ordinary statement with a visible effect
\*   "done"    emits the worker's done_signal (on_worker_done)
\*   "raise"   raises an exception that the coroutine does not catch
\*   "hook"    connects os._exit(5) to the application's aboutToQuit
\*   "start"   emits the start signal again from inside the task, as long as
\*             fewer than MaxTasks tasks exist
EntryNames ==
    {"set_text", "main", "yield_flag", "flag_done", "spin", "restart", "fail"}

Body(e) ==
    CASE e = "set_text"   -> <<"sleep", "setflag">>
      [] e = "main"       -> <<"hook", "block">>
      [] e = "yield_flag" -> <<"yield", "setflag">>
      [] e = "flag_done"  -> <<"yield", "setflag", "done">>
      [] e = "spin"       -> <<"spin">>
      [] e = "restart"    -> <<"start">>
      [] e = "fail"       -> <<"yield", "raise">>

\* minimal_asyncio.py has no done_signal to emit.
EntriesOf(v) ==
    IF v = "minimal" THEN EntryNames \ {"flag_done"} ELSE EntryNames

VARIABLES
    variant,    \* "qgui" (QGuiApplication_asyncio.py) or "minimal" (minimal_asyncio.py)
    entry,      \* self.entry: an entry point or None
    done,       \* self.done
    ready,      \* loop._ready: handles to run, in order
    scheduled,  \* loop._scheduled: armed timers (task ids), earliest deadline first
    ndue,       \* how many of the armed timers have reached their deadline
    tasks,      \* the tasks created on the loop: [entry, pc, begun]
    pending,    \* ReenterQtEvents posted to Qt and not yet delivered (their ids)
    evSeq,      \* id of the next ReenterQtEvent
    flag,       \* the effect of the entry point's "setflag"
    stopping,   \* loop._stopping
    running,    \* loop.is_running()
    nran,       \* handles executed by the last host turn's burst
    posts,      \* ReenterQtEvents posted by the last host turn
    iters,      \* _run_once iterations of the last host turn's burst
    hung,       \* the last burst never returned to the host
    op,         \* the last host turn: "init", "set_entry", "start", "deliver", "done", "time", "quit"
    overlap,    \* a burst began while another had not returned
    hooked,     \* os._exit is connected to the application's aboutToQuit
    exited,     \* the process has terminated
    status,     \* the exit status of the terminated process
    afterPost,  \* task and timer handles the last host turn ran with a token outstanding
    outcome     \* how the last host turn ended: "ok" or the exception raised

vars == <<variant, entry, done, ready, scheduled, ndue, tasks, pending, evSeq,
          flag, stopping, running, nran, posts, iters, hung, overlap, hooked, exited, status, afterPost, op, outcome>>

\* The state as one record, as the methods of AsyncHelper see it.
Cur ==
    [variant |-> variant, entry |-> entry, done |-> done, ready |-> ready,
     scheduled |-> scheduled, ndue |-> ndue, tasks |-> tasks,
     pending |-> pending, evSeq |-> evSeq, flag |-> flag,
     stopping |-> stopping, running |-> running,
     nran |-> 0, posts |-> 0, iters |-> 0, hung |-> FALSE, outcome |-> "ok",
     overlap |-> FALSE,
     hooked |-> hooked,
     exited |-> exited,
     status |-> status,
     afterPost |-> 0]

Becomes(h, name) ==
    /\ variant' = h.variant
    /\ entry' = h.entry
    /\ done' = h.done
    /\ ready' = h.ready
    /\ scheduled' = h.scheduled
    /\ ndue' = h.ndue
    /\ tasks' = h.tasks
    /\ pending' = h.pending
    /\ evSeq' = h.evSeq
    /\ flag' = h.flag
    /\ stopping' = h.stopping
    /\ running' = h.running
    /\ nran' = h.nran
    /\ posts' = h.posts
    /\ iters' = h.iters
    /\ hung' = h.hung
    /\ outcome' = h.outcome
    /\ overlap' = h.overlap
    /\ hooked' = h.hooked
    /\ exited' = h.exited
    /\ status' = h.status
    /\ afterPost' = h.afterPost
    /\ op' = name

\* ------------------------------------------------------------ asyncio loop
\* The operators below take the state record as their argument s and bind it
\* once, as h, before using it (h \in {s}): the record is computed a single
\* time however often the body reads it.
Only(S) == CHOOSE x \in S : TRUE

StepOf(t) == [k |-> "step", t |-> t]
TimerOf(t) == [k |-> "timer", t |-> t]
Ngrs == [k |-> "ngrs", t |-> 0]

\* loop.call_soon(callback): the handle goes to the end of _ready.
call_soon(s, hd) == [s EXCEPT !.ready = Append(@, hd)]

\* loop.create_task(coro): a new task whose first step is scheduled with call_soon.
create_task(s, e) ==
    Only({ call_soon([h EXCEPT !.tasks = Append(@, [entry |-> e, pc |-> 1, begun |-> FALSE])],
                     StepOf(Len(h.tasks) + 1)) : h \in {s} })

\* loop.stop()
stop(s) == [s EXCEPT !.stopping = TRUE]

\* QGuiApplication.postEvent(self.reenter_qt, ReenterQtEvent(fn))
postEvent(s) ==
    Only({ [h EXCEPT !.pending = Append(@, h.evSeq),
                     !.evSeq = (@ + 1) % EvMod,
                     !.posts = @ + 1] : h \in {s} })

\* next_guest_run_schedule that posts the event and forgets loop.stop().
next_guest_run_schedule_no_stop(s) == postEvent(s)

\* AsyncHelper.next_guest_run_schedule
next_guest_run_schedule(s) == postEvent(stop(s))

\* A completion signal that also drops what is queued on the guest loop.
on_worker_done_cancels(s) == [s EXCEPT !.done = TRUE, !.ready = <<>>]

\* AsyncHelper.on_worker_done
on_worker_done(s) == [s EXCEPT !.done = TRUE]

\* A task is over when its coroutine returned, or raised: Task.__step stores
\* the exception in the task and the task is not scheduled again.
Finished(task) == task.pc > Len(Body(task.entry))
Failed(task) == task.pc = Len(Body(task.entry)) + 2

RECURSIVE RunTask(_, _)
RECURSIVE RunHandles(_, _)
RECURSIVE RunLoop(_, _)
RECURSIVE run_forever(_)
RECURSIVE on_worker_started(_)
RECURSIVE launch_guest_run(_)

\* start() as the variant at hand implements it.
start(s) ==
    Only({ IF h.variant = "minimal" THEN launch_guest_run(h) ELSE on_worker_started(h)
           : h \in {s} })

\* Task.__step: run task t from where it stands to its next suspension point.
\* A start() issued by the task runs nested in the burst; the exception it
\* ends in (run_forever on a running loop) ends the task.
RunTask(s, t) ==
    Only({ LET task == h.tasks[t]
               pc == task.pc
               here == [h EXCEPT !.tasks[t].begun = TRUE]
               next == [h EXCEPT !.tasks[t].begun = TRUE, !.tasks[t].pc = pc + 1]
           IN  IF Finished(task) THEN here
               ELSE LET o == Body(task.entry)[pc]
                    IN  CASE o = "yield"   -> call_soon(next, StepOf(t))
                          [] o = "spin"    -> call_soon(here, StepOf(t))
                          [] o = "sleep"   -> [next EXCEPT !.scheduled = Append(@, t)]
                          [] o = "block"   -> here
                          [] o = "raise"   ->
                               [here EXCEPT !.tasks[t].pc = Len(Body(task.entry)) + 2]
                          [] o = "setflag" -> RunTask([next EXCEPT !.flag = TRUE], t)
                          [] o = "hook"    -> RunTask([next EXCEPT !.hooked = TRUE], t)
                          [] o = "done"    -> RunTask(on_worker_done(next), t)
                          [] o = "start"   ->
                               IF Len(h.tasks) < MaxTasks
                               THEN [start(next) EXCEPT !.outcome = h.outcome]
                               ELSE next
           : h \in {s} })

\* Handle._run
RunHandle(s, hd) ==
    CASE hd.k = "ngrs"  -> next_guest_run_schedule(s)
      [] hd.k = "step"  -> RunTask(s, hd.t)
      [] hd.k = "timer" -> call_soon(s, StepOf(hd.t))

\* Whether the handle about to run is a guest callback (a task's step or a
\* timer) that runs while a posted ReenterQtEvent awaits its delivery.
AfterPost(s) ==
    IF s.pending # <<>> /\ Head(s.ready).k # "ngrs" THEN 1 ELSE 0

\* The for-loop of _run_once: exactly the n handles that were ready when the
\* iteration began; what they schedule waits for the next iteration.  (The
\* deque never runs out before n does: n is its length when the pass began.)
RunHandles(s, n) ==
    IF n = 0 \/ s.ready = <<>> THEN s
    ELSE Only({ RunHandles(RunHandle([h EXCEPT !.ready = Tail(@), !.nran = @ + 1,
                                               !.afterPost = @ + AfterPost(h)],
                                     Head(h.ready)),
                           n - 1) : h \in {s} })

\* The timers of _scheduled that are due move to _ready, in deadline order.
MoveDue(s) ==
    Only({ [h EXCEPT !.ready = @ \o [i \in 1..h.ndue |-> TimerOf(h.scheduled[i])],
                     !.scheduled = SubSeq(@, h.ndue + 1, Len(@)),
                     !.ndue = 0] : h \in {s} })

\* An iteration that goes on with the handles its own handles schedule.
run_once_until_idle(s) ==
    Only({ RunHandles([h EXCEPT !.iters = @ + 1], Len(h.ready) + MaxTasks + 1)
           : h \in {MoveDue(s)} })

\* BaseEventLoop._run_once
run_once(s) ==
    Only({ RunHandles([h EXCEPT !.iters = @ + 1], Len(h.ready)) : h \in {MoveDue(s)} })

\* The while-loop of run_forever: _run_once until stop() was called.  With
\* nothing ready and stop() not called, select() waits for the first timer, or
\* for ever when none is armed.
RunLoop(s, fuel) ==
    Only({ IF fuel = 0 THEN [h EXCEPT !.hung = TRUE]
           ELSE IF h.ready = <<>> /\ ~h.stopping /\ h.ndue = 0
                THEN IF h.scheduled = <<>>
                     THEN [h EXCEPT !.hung = TRUE]
                     ELSE RunLoop([h EXCEPT !.ndue = 1], fuel)
                ELSE Only({ IF h1.stopping THEN h1 ELSE RunLoop(h1, fuel - 1)
                            : h1 \in {run_once(h)} })
           : h \in {s} })

\* run_forever entered: the loop runs until stopped and clears _stopping on
\* the way out.
EnterLoop(s) ==
    Only({ Only({ IF r.hung THEN r
                  ELSE [r EXCEPT !.running = FALSE, !.stopping = FALSE]
                  : r \in {RunLoop([h EXCEPT !.overlap = @ \/ h.running,
                                              !.running = TRUE], MaxIter)} })
           : h \in {s} })

\* run_forever without the check that the loop is not running already.
run_forever_reentrant(s) == EnterLoop(s)

\* BaseEventLoop.run_forever: refuses a loop that is running (RuntimeError).
run_forever(s) ==
    Only({ IF h.running
           THEN [h EXCEPT !.outcome = "RuntimeError"]
           ELSE EnterLoop(h)
           : h \in {s} })

\* ------------------------------------------------------------- AsyncHelper
\* on_worker_started with the entry check made after the loop was touched.
on_worker_started_late_check(s) ==
    Only({ IF h.entry = None
           THEN [call_soon(h, Ngrs) EXCEPT !.done = FALSE, !.outcome = "ConfigError"]
           ELSE run_forever([call_soon(create_task(h, h.entry), Ngrs) EXCEPT !.done = FALSE])
           : h \in {s} })

\* AsyncHelper.on_worker_started (QGuiApplication_asyncio.py)
on_worker_started(s) ==
    Only({ IF h.entry = None
           THEN [h EXCEPT !.outcome = "ConfigError"]
           ELSE run_forever([call_soon(create_task(h, h.entry), Ngrs) EXCEPT !.done = FALSE])
           : h \in {s} })

\* AsyncHelper.launch_guest_run (minimal_asyncio.py)
launch_guest_run(s) ==
    Only({ IF h.entry = None
           THEN [h EXCEPT !.outcome = "ConfigError"]
           ELSE run_forever(call_soon(create_task(h, h.entry), Ngrs))
           : h \in {s} })

\* continue_loop without the test of self.done.
continue_loop_ignores_done(s) == run_forever(call_soon(s, Ngrs))

\* continue_loop with the test of self.done inverted.
continue_loop_inverted(s) ==
    Only({ IF h.done THEN run_forever(call_soon(h, Ngrs)) ELSE h : h \in {s} })

\* AsyncHelper.continue_loop (QGuiApplication_asyncio.py)
continue_loop(s) ==
    Only({ IF ~h.done THEN run_forever(call_soon(h, Ngrs)) ELSE h : h \in {s} })

\* AsyncHelper.continue_loop (minimal_asyncio.py)
minimal_continue_loop(s) == run_forever(call_soon(s, Ngrs))

\* resume() as the variant at hand implements it.
resume(s) ==
    Only({ IF h.variant = "minimal" THEN minimal_continue_loop(h) ELSE continue_loop(h)
           : h \in {s} })

\* ReenterQtObject.event: the delivered event's fn() is called.
event(s) == resume([s EXCEPT !.pending = Tail(@)])

\* The shutdown with an exit status of 0 whatever is connected.
aboutToQuit_status0(s) == [s EXCEPT !.exited = TRUE, !.status = 0]

\* app.aboutToQuit: the connected lambda calls os._exit(5).
aboutToQuit(s) ==
    Only({ [h EXCEPT !.exited = TRUE,
                     !.status = IF h.hooked THEN ExitStatus ELSE 0] : h \in {s} })

\* --------------------------------------------------------------- host turns
Init ==
    /\ variant \in {"qgui", "minimal"}
    /\ entry \in EntriesOf(variant) \cup {None}
    /\ done = FALSE
    /\ ready = <<>>
    /\ scheduled = <<>>
    /\ ndue = 0
    /\ tasks = <<>>
    /\ pending = <<>>
    /\ evSeq = 0
    /\ flag = FALSE
    /\ stopping = FALSE
    /\ running = FALSE
    /\ nran = 0
    /\ posts = 0
    /\ iters = 0
    /\ hung = FALSE
    /\ overlap = FALSE
    /\ hooked = FALSE
    /\ exited = FALSE
    /\ status = 0
    /\ afterPost = 0
    /\ op = "init"
    /\ outcome = "ok"

\* The host loop takes a turn only while the process lives and the last slot
\* has returned.
Alive == ~hung /\ ~exited

\* AsyncHelper.set_entry (minimal_asyncio.py)
SetEntry ==
    /\ Alive
    /\ variant = "minimal"
    /\ \E e \in EntriesOf(variant) : Becomes([Cur EXCEPT !.entry = e], "set_entry")

\* The host runs the start slot: a button click, the zero timer, start_signal.
Start ==
    /\ Alive
    /\ Len(tasks) < MaxTasks
    /\ \E h \in {start(Cur)} : Becomes(h, "start")

\* The host delivers the oldest posted ReenterQtEvent to the ReenterQtObject.
Deliver ==
    /\ Alive
    /\ pending # <<>>
    /\ \E h \in {event(Cur)} : Becomes(h, "deliver")

\* The worker's done_signal reaches on_worker_done on a host turn.
Done ==
    /\ Alive
    /\ variant = "qgui"
    /\ Becomes(on_worker_done(Cur), "done")

\* Time passes: one more armed timer reaches its deadline.
TimeAdvance ==
    /\ Alive
    /\ ndue < Len(scheduled)
    /\ Becomes([Cur EXCEPT !.ndue = @ + 1], "time")

\* The host announces its shutdown (aboutToQuit).  With main()'s lambda
\* connected the process ends there and then in os._exit(5); otherwise
\* app.exec() returns, the script runs off its end and the interpreter exits
\* with status 0.  Either way nothing of the guest is run or cleaned up.
Quit ==
    /\ Alive
    /\ Becomes(aboutToQuit(Cur), "quit")

Next ==
    \/ Quit
    \/ SetEntry
    \/ Start
    \/ Deliver
    \/ Done
    \/ TimeAdvance

Spec == Init /\ [][Next]_vars

\* Qt delivers every posted event, and the clock advances.
FairSpec == Spec /\ WF_vars(Deliver) /\ WF_vars(TimeAdvance)

\* ------------------------------------------------------------------ claims
Handles(q) == {q[i] : i \in 1..Len(q)}

\* C1: in every reachable state at most one Re-entry Token is posted and not
\* yet delivered.
C1_AtMostOneToken == Len(pending) <= 1

\* C2: start() with no entry point configured ends in the configuration error
\* and changes nothing else: no task, no callback queued, no burst, no token
\* posted, and the done flag keeps its value.
C2_StartWithoutEntry ==
    [][(op' = "start" /\ entry = None) =>
         /\ outcome' = "ConfigError"
         /\ tasks' = tasks
         /\ ready' = ready
         /\ scheduled' = scheduled
         /\ pending' = pending
         /\ done' = done
         /\ iters' = 0 /\ nran' = 0 /\ posts' = 0]_vars

C2_Witness == op = "start" /\ outcome = "ConfigError" /\ done /\ entry = None

\* C3: once done is set, the delivery of a pending token is a no-op: no
\* burst-boundary callback is queued, no burst runs, no token is posted and the
\* guest scheduler's pending work is untouched.
C3_DeliveryAfterDoneIsNoOp ==
    [][(done /\ op' = "deliver") =>
         /\ ready' = ready
         /\ scheduled' = scheduled
         /\ ndue' = ndue
         /\ tasks' = tasks
         /\ pending' = Tail(pending)
         /\ iters' = 0 /\ nran' = 0 /\ posts' = 0
         /\ done']_vars

C3_Witness ==
    op = "deliver" /\ done /\ iters = 0 /\ ready # <<>> /\ scheduled # <<>>

\* C4: start() after a completed run (done set, the last token consumed) begins
\* a fresh run: done is false, the new root task runs in the first burst, that
\* burst leaves exactly the new run's token, and no task the previous run left
\* pending is executed in it.
C4_FreshRun ==
    [][(done /\ pending = <<>> /\ tasks # <<>> /\ entry # None /\ op' = "start") =>
         /\ ~done'
         /\ Len(tasks') = Len(tasks) + 1
         /\ tasks'[Len(tasks')].begun
         /\ Len(pending') = 1
         /\ \A t \in 1..Len(tasks) : tasks'[t] = tasks[t]]_vars

\* C5: a second start() while a run is active (a token is outstanding and done
\* is not set) fails with "already running" and schedules no second root task,
\* queues no further callback and posts no further token.
RunActive == pending # <<>> /\ ~done

C5_SecondStartFailsFast ==
    [][(RunActive /\ entry # None /\ op' = "start") =>
         /\ outcome' = "AlreadyRunning"
         /\ tasks' = tasks
         /\ ready' = ready
         /\ pending' = pending]_vars

\* C6: every guest burst invokes the burst-boundary callback exactly once, so
\* posts exactly one token, and each delivered token is consumed by exactly
\* one resume(): a host turn that ran a burst posted one token, and a delivery
\* removes the delivered token and adds what its burst posted.
C6_OneBoundaryPerBurst ==
    [][/\ (op' \in {"start", "deliver"} /\ iters' > 0) => posts' = 1
       /\ (op' = "deliver") =>
             /\ Len(pending') = Len(pending) - 1 + posts'
             /\ posts' <= 1]_vars

\* C7: for a root task that yields once and then sets a flag: after the burst
\* of start() the flag is unset and exactly one token is pending; after that
\* token is delivered the flag is set and the bridge has stopped posting
\* tokens (the run is Done).
C7_YieldOnceThenFlag ==
    [][/\ (tasks = <<>> /\ pending = <<>> /\ entry = "yield_flag" /\ op' = "start") =>
             (~flag' /\ Len(pending') = 1)
       /\ (/\ op = "start" /\ Len(tasks) = 1 /\ tasks[1].entry = "yield_flag"
           /\ Len(pending) = 1 /\ ~done /\ op' = "deliver") =>
             (flag' /\ pending' = <<>>)]_vars

\* C8: when the guest scheduler has no more tasks (the root task has finished,
\* nothing is ready, no timer is armed), the bridge eventually stops posting
\* tokens: a state with no outstanding token is reached (unless the process
\* ends first).
NoGuestWork ==
    /\ Len(tasks) = 1
    /\ Finished(tasks[1])
    /\ ready = <<>>
    /\ scheduled = <<>>

C8_IdleRunReachesDone ==
    NoGuestWork ~> (pending = <<>> \/ ~NoGuestWork \/ exited)

\* C9: every burst returns to the host after a bounded number of guest
\* callbacks: one pass over the handles that were ready or due when it began,
\* plus the ones the slot itself queued (the root task's first step and the
\* burst-boundary callback).
C9_BurstBounded ==
    [][/\ ~hung'
       /\ iters' <= 1
       /\ (op' = "start") => nran' <= Len(ready) + ndue + 2
       /\ (op' = "deliver") => nran' <= Len(ready) + ndue + 1]_vars

C9_Witness ==
    /\ op = "deliver" /\ iters = 1 /\ ~hung /\ nran >= 3
    /\ \E t \in 1..Len(tasks) : tasks[t].entry = "spin" /\ StepOf(t) \in Handles(ready)

\* C10: while done is not set, under fair delivery of host events every task
\* that needs finitely many scheduler iterations is eventually run to its end
\* (or the completion signal, or the end of the process, ends the run first).
Finite(e) == e \in {"set_text", "yield_flag", "flag_done", "restart"}

Unfinished(t) ==
    t <= Len(tasks) /\ Finite(tasks[t].entry) /\ ~Finished(tasks[t])

C10_GuestNotStarved ==
    \A t \in 1..MaxTasks : Unfinished(t) ~> (done \/ ~Unfinished(t) \/ exited)

C10_Witness ==
    /\ op = "deliver" /\ ~done /\ iters = 1
    /\ \E t \in 1..Len(tasks) :
          tasks[t].entry = "set_text" /\ Finished(tasks[t]) /\ flag

\* C11: host turns and guest bursts alternate: no burst begins while another
\* has not returned (a start() issued inside a running guest task is refused
\* by the running loop), every host turn ends with the loop returned, and the
\* host hands over the posted re-entries one at a time, oldest first.
C11_BurstsAlternate ==
    [][/\ ~overlap'
       /\ ~running'
       /\ (op' = "deliver") =>
             /\ Len(pending') >= Len(pending) - 1
             /\ SubSeq(pending', 1, Len(pending) - 1) = Tail(pending)]_vars

C11_Witness ==
    /\ op = "start" /\ iters = 1 /\ ~overlap /\ ~running
    /\ Len(tasks) = 2 /\ tasks[1].entry = "restart" /\ Finished(tasks[1])
    /\ ~tasks[2].begun

\* C12: an exception raised inside the guest root task ends that run: it never
\* leaves start() or resume() as an exception of the host turn, the failed
\* task is not scheduled again, and the bridge stops driving bursts for the
\* run: once the only task has failed, a state with no outstanding token is
\* reached (unless the process ends first).
RootFailed == Len(tasks) = 1 /\ Failed(tasks[1])

C12_FailureEndsRun ==
    /\ [][(op' \in {"start", "deliver"} /\ entry = "fail") => outcome' = "ok"]_vars
    /\ [][\A t \in 1..Len(tasks) :
             Failed(tasks[t]) =>
                 (tasks'[t] = tasks[t] /\ StepOf(t) \notin Handles(ready'))]_vars
    /\ RootFailed ~> (pending = <<>> \/ ~RootFailed \/ exited)

\* C13 as claimed: on the host's shutdown notification the process terminates
\* at once with the distinguished non-zero status in every state of the
\* bridge, and nothing runs afterwards.
C13_ShutdownExitsNonZero ==
    /\ [][op' = "quit" => (exited' /\ status' = ExitStatus)]_vars
    /\ [][~exited]_vars

\* C13 as amended: on the shutdown notification the process ends at once in
\* every state and nothing runs afterwards (no burst, no delivery: tokens and
\* tasks are left as they were); its status is the distinguished one exactly
\* when a task main() has begun and so connected os._exit to aboutToQuit, and
\* 0 otherwise (before the first burst of main(), and in minimal_asyncio.py).
C13_ShutdownEndsProcess ==
    /\ [][op' = "quit" =>
            /\ exited'
            /\ status' = (IF hooked THEN ExitStatus ELSE 0)
            /\ hooked = (\E t \in 1..Len(tasks) :
                            tasks[t].entry = "main" /\ tasks[t].begun)
            /\ <<tasks', ready', scheduled', pending', done'>>
                 = <<tasks, ready, scheduled, pending, done>>
            /\ nran' = 0 /\ iters' = 0 /\ posts' = 0]_vars
    /\ [][~exited]_vars

C13_Witness ==
    /\ exited /\ status = ExitStatus /\ op = "quit"
    /\ pending # <<>> /\ tasks # <<>> /\ ~done

C15_StoppedBeforePost ==
    /\ [][posts' >= 1 => (~running' /\ ~stopping')]_vars
    /\ [][afterPost' = 0]_vars

\* C16: the delivery of a token never increases the number of outstanding
\* tokens: resume() consumes the delivered token and posts exactly one new
\* token when done is false and none when done is true.
C16_DeliveryNeverAddsTokens ==
    [][op' = "deliver" =>
          /\ Len(pending') <= Len(pending)
          /\ posts' = (IF done THEN 0 ELSE 1)]_vars

\* C17: the completion signal only sets done, once or repeatedly.  Issued on
\* a host turn it leaves the tasks, the queued handles, the timers and the
\* posted tokens as they were.  Issued by a task inside a burst it does not
\* stop the burst: the burst runs its whole iteration, keeps every task and
\* every token already posted, and still posts its one token.
EmitsDone(t) ==
    /\ t <= Len(tasks) /\ tasks[t].entry = "flag_done"
    /\ ~Finished(tasks[t]) /\ Finished(tasks'[t])

C17_DoneOnlySetsFlag ==
    /\ [][op' = "done" =>
            /\ done'
            /\ <<tasks', ready', scheduled', ndue', pending', evSeq'>>
                 = <<tasks, ready, scheduled, ndue, pending, evSeq>>
            /\ <<stopping', running', flag', entry', exited'>>
                 = <<stopping, running, flag, entry, exited>>]_vars
    /\ [][(op' \in {"start", "deliver"} /\ \E t \in 1..MaxTasks : EmitsDone(t)) =>
            /\ done'
            /\ posts' = 1 /\ iters' = 1 /\ ~hung'
            /\ nran' = Len(ready) + ndue + (IF op' = "start" THEN 2 ELSE 1)
            /\ Len(tasks') >= Len(tasks)
            /\ \A t \in 1..Len(tasks) : tasks'[t].pc >= tasks[t].pc
            /\ (op' = "start") =>
                  /\ Len(pending') = Len(pending) + 1
                  /\ SubSeq(pending', 1, Len(pending)) = pending
            /\ (op' = "deliver") =>
                  /\ Len(pending') = Len(pending)
                  /\ SubSeq(pending', 1, Len(pending) - 1) = Tail(pending)]_vars

C17_Witness ==
    /\ op = "start" /\ done /\ posts = 1 /\ iters = 1 /\ Len(pending) = 2
    /\ Len(tasks) = 2 /\ Finished(tasks[1]) /\ tasks[1].entry = "flag_done"
    /\ ~Finished(tasks[2]) /\ StepOf(2) \in Handles(ready)

\* C18: after the completion signal, unless start() is called again (only
\* start() clears done) or the process ends, under fair delivery of host
\* events the bridge reaches a state with no outstanding token and the guest
\* scheduler stopped, and it stays there: no host turn other than start()
\* runs the guest or posts a token.
Quiescent == pending = <<>> /\ ~running /\ ~stopping

C18_QuiescesAfterDone ==
    /\ done ~> (Quiescent \/ ~done \/ exited)
    /\ [][(done /\ ~done') => op' = "start"]_vars
    /\ [][(done /\ Quiescent /\ op' # "start") =>
            /\ done' /\ Quiescent'
            /\ nran' = 0 /\ posts' = 0
            /\ <<tasks', ready'>> = <<tasks, ready>>]_vars

C18_Witness ==
    /\ op = "deliver" /\ done /\ Quiescent /\ ~exited
    /\ tasks # <<>> /\ posts = 0 /\ iters = 0

====
